---- MODULE Spec2Model ----
(***************************************************************************)
(* Model of update-virtualbox-machines (src/main.py): the batch loop of    *)
(* main() and the per-machine state machine of update().                   *)
(*                                                                         *)
(* Text is a sequence of symbols.  A symbol is either one of the           *)
(* characters the program looks for (quote, brace, dash, "=", the "\r\n"   *)
(* line separator) or an opaque block of other characters (a word).        *)
(* Python's str operations are modelled on these sequences: split,         *)
(* startswith, index, count, slicing, "in", format.                        *)
(***************************************************************************)
EXTENDS Integers, Sequences, FiniteSets, TLC

\* ------------------------------------------------------------------------
\* Bounds of the model
\* ------------------------------------------------------------------------
\* Non-poweroff answers the shutdown poll may receive for one machine.
MaxPolls == 2

\* ------------------------------------------------------------------------
\* Module-level values of main.py
\* ------------------------------------------------------------------------
flag == <<"UpdateVirtualBoxMachinesFinalSignalOperationIsComplete">>
newline == "\r\n"
quote == "\""

\* ------------------------------------------------------------------------
\* Python str operations on symbol sequences
\* ------------------------------------------------------------------------
\* text.startswith(prefix)
StartsWith(text, prefix) ==
    /\ Len(prefix) <= Len(text)
    /\ SubSeq(text, 1, Len(prefix)) = prefix

\* sub in text
Contains(text, sub) ==
    \E k \in 0..(Len(text) - Len(sub)) : SubSeq(text, k + 1, k + Len(sub)) = sub

\* text.count(ch) for a one-symbol ch
Count(text, ch) == Cardinality({k \in 1..Len(text) : text[k] = ch})

\* text.index(ch) for a one-symbol ch, 1-based; 0 stands for ValueError
Index(text, ch) ==
    IF \E k \in 1..Len(text) : text[k] = ch
    THEN CHOOSE k \in 1..Len(text) : text[k] = ch /\ \A j \in 1..(k - 1) : text[j] # ch
    ELSE 0

\* text.split(sep) for a one-symbol sep: always at least one piece
RECURSIVE Split(_, _)
Split(text, sep) ==
    LET p == Index(text, sep)
    IN IF p = 0 THEN <<text>>
       ELSE <<SubSeq(text, 1, p - 1)>> \o Split(SubSeq(text, p + 1, Len(text)), sep)

\* template.format(arg): every "{0}" symbol is replaced by arg
RECURSIVE Format(_, _)
Format(template, arg) ==
    IF template = <<>> THEN <<>>
    ELSE (IF Head(template) = "{0}" THEN arg ELSE <<Head(template)>>)
         \o Format(Tail(template), arg)

\* ------------------------------------------------------------------------
\* find_property_value(vminfo, property)
\* ------------------------------------------------------------------------
\* The value of the first line that starts with property: the symbols
\* between the line's first quote and its last symbol.  raised is
\* "Exception" when no line starts with property and "ValueError" when the
\* matching line holds no quote.
RECURSIVE FindInLines(_, _)
FindInLines(lines, property) ==
    IF lines = <<>> THEN [raised |-> "Exception", value |-> <<>>]
    ELSE LET line == Head(lines)
         IN IF StartsWith(line, property)
            THEN IF Index(line, quote) = 0
                 THEN [raised |-> "ValueError", value |-> <<>>]
                 ELSE [raised |-> "",
                       value |-> SubSeq(line, Index(line, quote) + 1, Len(line) - 1)]
            ELSE FindInLines(Tail(lines), property)

find_property_value(vminfo, property) == FindInLines(Split(vminfo, newline), property)

\* ------------------------------------------------------------------------
\* parse_machines(list)
\* ------------------------------------------------------------------------
\* result is "return" (vms holds the list), "raise" (unknown format) or
\* "None" (the loop ended without meeting a blank line: no return statement).
\* Variant of WellFormedLine: the braces are not counted.
WellFormedLine_NoBraces(line) ==
    /\ Count(line, quote) = 2
    /\ Count(line, "-") = 4

WellFormedLine(line) ==
    /\ Count(line, quote) = 2
    /\ Count(line, "-") = 4
    /\ Count(line, "{") = 1
    /\ Count(line, "}") = 1

ParseLine(line) ==
    LET rest == Tail(line)
        q == Index(rest, quote)
    IN [name |-> SubSeq(rest, 1, q - 1),
        uuid |-> SubSeq(rest, q + 3, Len(rest) - 1)]

RECURSIVE ParseLines(_, _)
ParseLines(lines, vms) ==
    IF lines = <<>> THEN [result |-> "None", vms |-> <<>>]
    ELSE LET line == Head(lines)
         IN IF line = <<>> THEN [result |-> "return", vms |-> vms]
            ELSE IF ~WellFormedLine(line) THEN [result |-> "raise", vms |-> <<>>]
            ELSE ParseLines(Tail(lines), Append(vms, ParseLine(line)))

parse_machines(list) == ParseLines(Split(list, newline), <<>>)

\* ------------------------------------------------------------------------
\* parse_arguments(argv)
\* ------------------------------------------------------------------------
\* ok is FALSE where the function returns False; unknown is the argument
\* named by its "Unknown argument:" line, if it printed one.
NoArgs ==
    [ok |-> FALSE, username |-> "", password |-> "",
     remove |-> FALSE, shutdown |-> FALSE, verbose |-> FALSE, unknown |-> ""]

\* Variant of ParseFlags: an argument that is not known is passed over.
RECURSIVE ParseFlags_SkipUnknown(_, _)
ParseFlags_SkipUnknown(rest, arguments) ==
    IF rest = <<>> THEN arguments
    ELSE LET arg == Head(rest)
         IN IF arg = "-h" THEN NoArgs
            ELSE IF arg = "-r"
            THEN ParseFlags_SkipUnknown(Tail(rest), [arguments EXCEPT !.remove = TRUE])
            ELSE IF arg = "-s"
            THEN ParseFlags_SkipUnknown(Tail(rest), [arguments EXCEPT !.shutdown = TRUE])
            ELSE IF arg = "-v"
            THEN ParseFlags_SkipUnknown(Tail(rest), [arguments EXCEPT !.verbose = TRUE])
            ELSE ParseFlags_SkipUnknown(Tail(rest), arguments)

RECURSIVE ParseFlags(_, _)
ParseFlags(rest, arguments) ==
    IF rest = <<>> THEN arguments
    ELSE LET arg == Head(rest)
         IN IF arg = "-h" THEN NoArgs
            ELSE IF arg = "-r" THEN ParseFlags(Tail(rest), [arguments EXCEPT !.remove = TRUE])
            ELSE IF arg = "-s" THEN ParseFlags(Tail(rest), [arguments EXCEPT !.shutdown = TRUE])
            ELSE IF arg = "-v" THEN ParseFlags(Tail(rest), [arguments EXCEPT !.verbose = TRUE])
            ELSE [NoArgs EXCEPT !.unknown = arg]

parse_arguments(argv) ==
    IF 3 > Len(argv) THEN NoArgs
    ELSE ParseFlags(SubSeq(argv, 4, Len(argv)),
                    [ok |-> TRUE, username |-> argv[2], password |-> argv[3],
                     remove |-> FALSE, shutdown |-> FALSE, verbose |-> FALSE,
                     unknown |-> ""])

\* ------------------------------------------------------------------------
\* get_update_command(managers, args)
\* ------------------------------------------------------------------------
\* Variant of get_update_command: the autoremove step does not look at the
\* remove option.
get_update_command_AlwaysRemove(managers, args) ==
    LET apt == IF managers.apt
               THEN <<"{0}", "apt", "update", "&&", "{0}", "apt", "upgrade", "-y", "&&",
                      "{0}", "apt", "autoremove", "-y", "&&">>
               ELSE <<>>
        snap == IF managers.snap THEN <<"{0}", "snap", "refresh", "&&">> ELSE <<>>
        command == apt \o snap \o Format(<<"echo", "{0}">>, flag)
    IN Format(command, <<"echo", args.password, "|", "sudo", "-S">>)

get_update_command(managers, args) ==
    LET apt == IF managers.apt
               THEN <<"{0}", "apt", "update", "&&", "{0}", "apt", "upgrade", "-y", "&&">>
                    \o (IF args.remove
                        THEN <<"{0}", "apt", "autoremove", "-y", "&&">>
                        ELSE <<>>)
               ELSE <<>>
        snap == IF managers.snap THEN <<"{0}", "snap", "refresh", "&&">> ELSE <<>>
        command == apt \o snap \o Format(<<"echo", "{0}">>, flag)
    IN Format(command, <<"echo", args.password, "|", "sudo", "-S">>)

\* ------------------------------------------------------------------------
\* The VBoxManage command lines built by the program
\* ------------------------------------------------------------------------
\* run_command(): the two adjacent literals are joined without a blank, so
\* the password and the word "run" form one word.
GuestCommand(vm, args, command) ==
    <<"guestcontrol">> \o vm.uuid
    \o <<"--username", args.username, "--password", args.password \o "run",
         "--exe", "/bin/sh", "--", "/bin/sh", "-c">> \o command

ShowVmInfoCommand(vm) == <<"showvminfo">> \o vm.uuid \o <<"--machinereadable">>

StartVmCommand(vm) == <<"startvm">> \o vm.uuid

PowerButtonCommand(vm) == <<"controlvm">> \o vm.uuid \o <<"acpipowerbutton">>

\* ------------------------------------------------------------------------
\* Inputs: command lines and answers of the external tool
\* ------------------------------------------------------------------------
\* Listed machines in the largest listing.
MaxMachines == 2

Argvs ==
    { <<"update.py", "user", "pw">>,
      <<"update.py", "user", "pw", "-r">>,
      <<"update.py", "user", "pw", "-v", "-s">>,
      <<"update.py", "user", "pw", "-h">>,
      <<"update.py", "user", "pw", "-x">>,
      <<"update.py", "user">> }

\* One line of "list vms": "name" {uuid}; the uuid holds four dashes.
ListingLine(n) ==
    <<quote, "vm", ToString(n), quote, " ", "{", ToString(n), "-", "-", "-", "-", "}">>

RECURSIVE ListingOf(_)
ListingOf(n) == IF n = 0 THEN <<>> ELSE ListingOf(n - 1) \o ListingLine(n) \o <<newline>>

Listings ==
    { ListingOf(n) : n \in 0..MaxMachines }
    \cup { ListingOf(1) \o <<quote, "vm", quote, " ", "{", "x", "}", newline>>,
           ListingLine(1) }

\* One key="value" line of "showvminfo --machinereadable".
InfoLine(key, value) == key \o <<"=", quote>> \o value \o <<quote, newline>>

VmInfo(ostype, state) ==
    InfoLine(<<"name">>, <<"vm">>)
    \o InfoLine(<<"ostype">>, ostype)
    \o InfoLine(<<"VMState">>, state)
    \o InfoLine(<<"VMState", "ChangeTime">>, <<"2020">>)

VmInfos ==
    { VmInfo(<<"Ubuntu">>, <<"poweroff">>),
      VmInfo(<<"Ubuntu">>, <<"running">>),
      VmInfo(<<"Windows">>, <<"poweroff">>),
      VmInfo(<<"Windows", "10">>, <<"poweroff">>),
      VmInfo(<<"Windows", "10">>, <<"saved">>),
      InfoLine(<<"VMState">>, <<"poweroff">>),
      <<"VMState", "=", "poweroff", newline>>,
      <<"VBoxManage", ":", "error:", "Could", "not", "find", newline>> }

StartResponses ==
    { <<"VM", "has", "been", "successfully", "started", newline>>,
      <<"VM", "has", "been", "successfully", "paused", newline>>,
      <<"VBoxManage", ":", "error:", "locked", newline>> }

WhichResponses == { <<>>, <<"/usr/bin/tool", newline>> }

UpdateResponses ==
    { flag \o <<newline>>,
      <<"Reading", "package", "lists", newline>>,
      <<"VBoxManage", ":", "error:", "not", "ready", newline>>,
      <<"VBoxManage", ":", "error:", "lost">> \o flag \o <<newline>> }

\* ------------------------------------------------------------------------
\* State
\* ------------------------------------------------------------------------
VARIABLES
    argv,            \* sys.argv
    listing,         \* the answer of the external tool to "list vms"
    pc,              \* position in main() / update()
    args,            \* main: args
    machines,        \* main: machines
    i,               \* main: loop index (0-based)
    success,         \* main: value returned by the last update()
    vm_info,         \* update: vm_info
    response,        \* update: response
    attempt_count,   \* update: attempt_count
    error_detected,  \* update: error_detected
    managers,        \* discover_package_managers: managers
    command,         \* run_update_command: command
    probes,          \* the answers to the manager probes of the last attempt
    issued,          \* the last command line handed to vboxmanage()
    log,             \* external commands and sleeps of the current update()
    checks,          \* sentinel checks made by the current update()
    polls,           \* non-poweroff answers to the current shutdown poll
    reported,        \* the answer to the first machine-info query of the current update()
    starts,          \* the answers to the start commands of the current update()
    stdout,          \* lines printed since the current machine was announced
    outcomes,        \* values returned by update(), in call order
    host_shutdown,   \* the host shutdown command was started
    exception,       \* the uncaught exception that ended the run, if any
    property,        \* find_property_value: property, where the function is run alone
    found            \* find_property_value: its result, where the function is run alone

vars ==
    <<argv, listing, pc, args, machines, i, success, vm_info, response, attempt_count,
      error_detected, managers, command, probes, issued, log, checks, polls, reported,
      starts, stdout, outcomes, host_shutdown, exception, property, found>>

\* main: machines[i]
vm == machines[i + 1]

print(out, message) == Append(out, message)

print_if_verbose(out, message) == IF args.verbose THEN Append(out, message) ELSE out

\* An uncaught exception ends the program.
Raise(name) ==
    /\ pc' = "crashed"
    /\ exception' = name

\* The values of the variables that main() and update() set later.
Unset ==
    /\ args = NoArgs
    /\ machines = <<>>
    /\ i = 0
    /\ success = FALSE
    /\ response = <<>>
    /\ attempt_count = 0
    /\ error_detected = FALSE
    /\ managers = [apt |-> FALSE, snap |-> FALSE]
    /\ command = <<>>
    /\ probes = [apt |-> <<>>, snap |-> <<>>]
    /\ issued = <<>>
    /\ log = <<>>
    /\ checks = 0
    /\ polls = 0
    /\ reported = <<>>
    /\ starts = <<>>
    /\ stdout = <<>>
    /\ outcomes = <<>>
    /\ host_shutdown = FALSE
    /\ exception = ""
    /\ found = [raised |-> "", value |-> <<>>]

\* The program starts with some command line; the external tool will give
\* some answer to "list vms".
Init ==
    /\ argv \in Argvs
    /\ listing \in Listings
    /\ pc = "main"
    /\ property = <<>>
    /\ vm_info = <<>>
    /\ Unset

\* ------------------------------------------------------------------------
\* main()
\* ------------------------------------------------------------------------
\* Lines 248-255: parse the arguments, list and parse the machines.
MainStart ==
    /\ pc = "main"
    /\ args' = parse_arguments(argv)
    /\ IF ~args'.ok
       THEN /\ stdout' = print(IF args'.unknown = "" THEN stdout
                                    ELSE print(stdout, <<"Unknown argument:", args'.unknown>>),
                                    <<"Usage:">>)
            /\ Raise("SystemExit")
            /\ UNCHANGED <<machines, issued, log>>
       ELSE   LET parsed == parse_machines(listing)
              IN /\ issued' = <<"list", "vms">>
                 /\ log' = Append(log, "list vms")
                 /\ IF parsed.result = "raise"
                    THEN /\ Raise("Exception")
                         /\ UNCHANGED <<machines, stdout>>
                    ELSE IF parsed.result = "None"
                    THEN /\ Raise("TypeError")
                         /\ UNCHANGED <<machines, stdout>>
                    ELSE /\ machines' = parsed.vms
                         /\ stdout' = print(stdout, <<ToString(Len(parsed.vms)), "found">>)
                         /\ pc' = "loop"
                         /\ UNCHANGED exception
    /\ UNCHANGED <<property, found, probes, listing, argv, i, success, vm_info,
                   response, attempt_count, error_detected, managers, command, checks,
                   polls, reported, starts, outcomes, host_shutdown>>

\* Lines 256-259 and 263-267: announce the next machine and call update(),
\* or leave the loop and start the host shutdown if asked to.
MainLoop ==
    /\ pc = "loop"
    /\ IF i < Len(machines)
       THEN /\ stdout' = print(print(<<>>, <<>>), <<"Updating", ToString(i)>> \o vm.name)
            /\ pc' = "eligibility"
            /\ log' = <<>>
            /\ checks' = 0
            /\ polls' = 0
            /\ reported' = <<>>
            /\ starts' = <<>>
            /\ UNCHANGED host_shutdown
       ELSE /\ host_shutdown' = args.shutdown
            /\ pc' = "done"
            /\ UNCHANGED <<stdout, log, checks, polls, reported, starts>>
    /\ UNCHANGED <<property, found, probes, listing, argv, args, machines, i, success,
                   vm_info, response, attempt_count, error_detected, managers, command,
                   issued, outcomes, exception>>

\* Variant of NextIndex: a failed machine is tried again.
NextIndex_RetryFailed(index, ok) == IF ok THEN index + 1 ELSE index

\* Line 256: for i in range(len(machines)) goes to the next index whatever
\* update() returned.
NextIndex(index, ok) == index + 1

\* Variant of AfterUpdate: the loop is left at the first failed machine.
AfterUpdate_StopOnFailure(ok) == IF ok THEN "loop" ELSE "done"

\* Lines 256-261: the loop goes on whatever update() returned.
AfterUpdate(ok) == "loop"

\* Lines 259-261: update() has returned; narrate and go to the next index.
MainReturn ==
    /\ pc = "return"
    /\ stdout' = print_if_verbose(stdout, IF success THEN <<"Update successful">>
                                                     ELSE <<"Update failed">>)
    /\ outcomes' = Append(outcomes, success)
    /\ i' = NextIndex(i, success)
    /\ pc' = AfterUpdate(success)
    /\ UNCHANGED <<property, found, probes, listing, argv, args, machines, success,
                   vm_info, response, attempt_count, error_detected, managers, command,
                   issued, log, checks, polls, reported, starts, host_shutdown,
                   exception>>

\* ------------------------------------------------------------------------
\* update(vm, args)
\* ------------------------------------------------------------------------
\* Variant of IsPoweredOff: every state but "running" counts as powered off.
IsPoweredOff_NotRunning(value) == <<"running">> # value

\* Line 179: "poweroff" != find_property_value(vm_info, "VMState")
\* Line 239: "poweroff" == find_property_value(vm_info, "VMState")
IsPoweredOff(value) == <<"poweroff">> = value

\* Variant of IsWindows: any ostype that begins with Windows.
IsWindows_Prefix(value) == StartsWith(value, <<"Windows">>)

\* Line 182: "Windows" == find_property_value(vm_info, "ostype")
IsWindows(value) == <<"Windows">> = value

\* Variant of StartAcknowledged: only the first word of the phrase is looked for.
StartAcknowledged_FirstWord(answer) == Contains(answer, <<"successfully">>)

\* Line 191: "successfully started" in response
StartAcknowledged(answer) == Contains(answer, <<"successfully", "started">>)

\* Variant of SettleWait: the wait is taken only after an acknowledged start.
SettleWait_AfterAck(answer) == IF StartAcknowledged(answer) THEN <<"sleep 60">> ELSE <<>>

\* Line 188: time.sleep(60), before the answer is looked at
SettleWait(answer) == <<"sleep 60">>

\* Variant of DispatchExhausted: the bound is compared one too late.
DispatchExhausted_Late(count) == 5 < count - 1

\* Line 203: 5 < attempt_count
DispatchExhausted(count) == 5 < count

\* Variant of DispatchRejected: an answer that holds the flag is accepted.
DispatchRejected_UnlessFlag(answer) ==
    Contains(answer, <<"error:">>) /\ ~Contains(answer, flag)

\* Line 209: "error:" in response
DispatchRejected(answer) == Contains(answer, <<"error:">>)

\* Variant of AfterDispatch: a failed dispatch leaves update() at once.
AfterDispatch_EarlyReturn(error) == IF error THEN "return" ELSE "completion"

\* Line 219: the second loop runs only while no error was detected
AfterDispatch(error) == IF error THEN "shutdown" ELSE "completion"

\* Variant of CompletionExhausted: the bound is taken inclusively.
CompletionExhausted_Inclusive(count) == 20 <= count

\* Line 221: 20 < attempt_count
CompletionExhausted(count) == 20 < count

\* Line 225: flag in response
SentinelSeen(answer) == Contains(answer, flag)

\* Variant of CompletionWait: the wait is taken before the flag is looked at.
CompletionWait_Always(seen) == <<"sleep 30">>

\* Lines 225-228: no wait once the flag was seen, else sleep(30)
CompletionWait(seen) == IF seen THEN <<>> ELSE <<"sleep 30">>

\* return False / return True
Return(value) ==
    /\ success' = value
    /\ pc' = "return"
    /\ UNCHANGED exception

\* Lines 176-185: query the machine and skip it unless it is powered off and
\* its ostype is not "Windows".
UpdateEligibility ==
    /\ pc = "eligibility"
    /\ \E info \in VmInfos :
         LET state == find_property_value(info, <<"VMState">>)
             ostype == find_property_value(info, <<"ostype">>)
         IN /\ vm_info' = info
            /\ reported' = info
            /\ issued' = ShowVmInfoCommand(vm)
            /\ log' = Append(log, "showvminfo")
            /\ IF state.raised # ""
               THEN Raise(state.raised) /\ UNCHANGED <<success, stdout>>
               ELSE IF ~IsPoweredOff(state.value)
               THEN Return(FALSE) /\ UNCHANGED stdout
               ELSE IF ostype.raised # ""
               THEN Raise(ostype.raised) /\ UNCHANGED <<success, stdout>>
               ELSE IF IsWindows(ostype.value)
               THEN Return(FALSE) /\ UNCHANGED stdout
               ELSE /\ stdout' = print_if_verbose(stdout, <<"Starting machine">>)
                    /\ pc' = "start"
                    /\ UNCHANGED <<success, exception>>
    /\ UNCHANGED <<property, found, probes, listing, argv, args, machines, i, response,
                   attempt_count, error_detected, managers, command, checks, polls,
                   starts, outcomes, host_shutdown>>

\* Lines 187-198: start the machine, wait, and give up unless the answer
\* holds the success phrase.
UpdateStart ==
    /\ pc = "start"
    /\ \E answer \in StartResponses :
         /\ response' = answer
         /\ starts' = Append(starts, answer)
         /\ issued' = StartVmCommand(vm)
         /\ log' = log \o <<"startvm">> \o SettleWait(answer)
         /\ IF ~StartAcknowledged(answer)
            THEN /\ Return(FALSE)
                 /\ UNCHANGED <<stdout, attempt_count, error_detected>>
            ELSE /\ stdout' = print_if_verbose(
                                 print_if_verbose(stdout, <<"Machine started successfully">>),
                                 <<"Waiting to run update command">>)
                 /\ attempt_count' = 0
                 /\ error_detected' = FALSE
                 /\ pc' = "dispatch"
                 /\ UNCHANGED <<success, exception>>
    /\ UNCHANGED <<property, found, probes, listing, argv, args, machines, i, vm_info,
                   managers, command, checks, polls, reported, outcomes, host_shutdown>>

\* Variant of discover_package_managers: the dictionary is not set up anew,
\* a manager found by an earlier attempt stays marked.
discover_package_managers_Sticky(apt, snap) ==
    [apt |-> managers.apt \/ apt # <<>>, snap |-> managers.snap \/ snap # <<>>]

\* Lines 131-145: a manager is marked iff the answer to its probe is not
\* empty; apt and snap are the answers to "which apt" and "which snap".
discover_package_managers(apt, snap) == [apt |-> apt # <<>>, snap |-> snap # <<>>]

\* Lines 201-212, one iteration of the first loop: count the attempt, give up
\* after 5; otherwise probe the managers, build and run the update command,
\* and retry after a wait if the answer holds "error:".
UpdateDispatch ==
    /\ pc = "dispatch"
    /\ ~error_detected
    /\ attempt_count' = attempt_count + 1
    /\ IF DispatchExhausted(attempt_count')
       THEN /\ error_detected' = TRUE
            /\ pc' = "dispatched"
            /\ UNCHANGED <<managers, command, probes, response, issued, log>>
       ELSE \E apt \in WhichResponses, snap \in WhichResponses, answer \in UpdateResponses :
              /\ probes' = [apt |-> apt, snap |-> snap]
              /\ managers' = discover_package_managers(apt, snap)
              /\ command' = get_update_command(managers', args)
              /\ response' = answer
              /\ issued' = GuestCommand(vm, args, command')
              /\ IF DispatchRejected(answer)
                 THEN /\ log' = log \o <<"which apt", "which snap", "update", "sleep 30">>
                      /\ pc' = "dispatch"
                 ELSE /\ log' = log \o <<"which apt", "which snap", "update">>
                      /\ pc' = "dispatched"
              /\ UNCHANGED error_detected
    /\ UNCHANGED <<property, found, listing, argv, args, machines, i, success, vm_info,
                   checks, polls, reported, starts, stdout, outcomes, host_shutdown,
                   exception>>

\* Lines 214-219: reset the counter and narrate; the second loop is entered
\* only if no error was detected.
UpdateDispatched ==
    /\ pc = "dispatched"
    /\ attempt_count' = 0
    /\ stdout' = print_if_verbose(
                    print_if_verbose(stdout, IF error_detected THEN <<"Update command failed">>
                                                               ELSE <<"Update command run">>),
                    <<"Waiting for update to finish">>)
    /\ pc' = AfterDispatch(error_detected)
    /\ UNCHANGED <<property, found, probes, listing, argv, args, machines, i, success,
                   vm_info, response, error_detected, managers, command, issued, log,
                   checks, polls, reported, starts, outcomes, host_shutdown, exception>>

\* Lines 219-228, one iteration of the second loop: count the check, time out
\* after 20; otherwise look for the flag in the stored response and wait if
\* it is not there.
UpdateCompletion ==
    /\ pc = "completion"
    /\ ~error_detected
    /\ attempt_count' = attempt_count + 1
    /\ IF CompletionExhausted(attempt_count')
       THEN /\ error_detected' = TRUE
            /\ pc' = "shutdown"
            /\ UNCHANGED <<checks, log>>
       ELSE /\ checks' = checks + 1
            /\ log' = log \o CompletionWait(SentinelSeen(response))
            /\ pc' = IF SentinelSeen(response) THEN "shutdown" ELSE "completion"
            /\ UNCHANGED error_detected
    /\ UNCHANGED <<property, found, probes, listing, argv, args, machines, i, success,
                   vm_info, response, managers, command, issued, polls, reported,
                   starts, stdout, outcomes, host_shutdown, exception>>

\* Variant of ShutdownPollExhausted: the poll gives up after two answers.
ShutdownPollExhausted_AfterTwo(count) == 2 <= count

\* Line 237: while True, the poll has no budget
ShutdownPollExhausted(count) == FALSE

\* Lines 230-236: narrate, press the power button, wait.
UpdateShutdown ==
    /\ pc = "shutdown"
    /\ stdout' = print_if_verbose(
                    print_if_verbose(stdout, IF error_detected THEN <<"Update timed out">>
                                                               ELSE <<"Update completed">>),
                    <<"Shutting down machine">>)
    /\ issued' = PowerButtonCommand(vm)
    /\ log' = log \o <<"acpipowerbutton", "sleep 30">>
    /\ pc' = "poll"
    /\ UNCHANGED <<property, found, probes, listing, argv, args, machines, i, success,
                   vm_info, response, attempt_count, error_detected, managers, command,
                   checks, polls, reported, starts, outcomes, host_shutdown, exception>>

\* Lines 237-245, one iteration of the last loop: query the machine and
\* return True once it is powered off; otherwise wait and ask again.
UpdatePoll ==
    /\ pc = "poll"
    /\ \E info \in VmInfos :
         LET state == find_property_value(info, <<"VMState">>)
         IN /\ vm_info' = info
            /\ issued' = ShowVmInfoCommand(vm)
            /\ IF state.raised # ""
               THEN /\ Raise(state.raised)
                    /\ log' = Append(log, "showvminfo")
                    /\ UNCHANGED <<success, stdout, polls>>
               ELSE IF IsPoweredOff(state.value) \/ ShutdownPollExhausted(polls)
               THEN /\ Return(TRUE)
                    /\ log' = Append(log, "showvminfo")
                    /\ stdout' = print_if_verbose(stdout, <<"Shutdown complete">>)
                    /\ UNCHANGED polls
               ELSE /\ polls < MaxPolls
                    /\ polls' = polls + 1
                    /\ log' = log \o <<"showvminfo", "sleep 15">>
                    /\ UNCHANGED <<pc, success, stdout, exception>>
    /\ UNCHANGED <<property, found, probes, listing, argv, args, machines, i, response,
                   attempt_count, error_detected, managers, command, checks, reported,
                   starts, outcomes, host_shutdown>>

\* ------------------------------------------------------------------------
\* Specification
\* ------------------------------------------------------------------------
Next ==
    \/ MainStart
    \/ MainLoop
    \/ MainReturn
    \/ UpdateEligibility
    \/ UpdateStart
    \/ UpdateDispatch
    \/ UpdateDispatched
    \/ UpdateCompletion
    \/ UpdateShutdown
    \/ UpdatePoll

Spec == Init /\ [][Next]_vars

\* The program is sequential: a step is taken whenever the external tool
\* has answered.
FairSpec == Spec /\ WF_vars(Next)

\* ------------------------------------------------------------------------
\* Observations used by the properties
\* ------------------------------------------------------------------------
\* The lines of a machine-info dump.
InfoLines(dump) == Split(dump, newline)

\* The dump holds a VMState line whose value is not "poweroff".
ReportsNotPoweredOff(dump) ==
    \E k \in 1..Len(InfoLines(dump)) :
        /\ StartsWith(InfoLines(dump)[k], <<"VMState", "=", quote>>)
        /\ InfoLines(dump)[k] # <<"VMState", "=", quote, "poweroff", quote>>

\* The dump holds an ostype line whose value begins with Windows.
ReportsWindows(dump) ==
    \E k \in 1..Len(InfoLines(dump)) :
        StartsWith(InfoLines(dump)[k], <<"ostype", "=", quote, "Windows">>)

\* The dump holds the line VMState="poweroff".
ReportsPoweredOff(dump) ==
    \E k \in 1..Len(InfoLines(dump)) :
        InfoLines(dump)[k] = <<"VMState", "=", quote, "poweroff", quote>>

\* Occurrences of an entry in the log of the current update().
Occurrences(entry) == Cardinality({k \in 1..Len(log) : log[k] = entry})

\* Update commands dispatched by the current update().
Dispatches == Occurrences("update")

\* The log up to the start of the first dispatch attempt.
StartedLog == <<"showvminfo", "startvm", "sleep 60">>

\* The start command of the current update() was answered without / with
\* the success phrase.
StartRefused == starts # <<>> /\ ~Contains(starts[1], <<"successfully", "started">>)

StartAcked == starts # <<>> /\ Contains(starts[1], <<"successfully", "started">>)

\* update() has returned and main has not yet called it for the next machine.
Returned == pc = "return" \/ (pc \in {"loop", "done"} /\ outcomes # <<>>)

\* The value update() returned last.
Outcome == IF pc = "return" THEN success ELSE outcomes[Len(outcomes)]

\* ------------------------------------------------------------------------
\* C1: a machine whose reported VMState is not "poweroff", or whose reported
\* ostype is a Windows variant, gets the failed outcome and no external
\* command but the single machine-info query.
\* ------------------------------------------------------------------------
C1_IneligibleUntouched ==
    (ReportsNotPoweredOff(reported) \/ ReportsWindows(reported))
        => /\ log = <<"showvminfo">>
           /\ Returned => ~Outcome

\* ------------------------------------------------------------------------
\* C2: at most 5 update commands are dispatched and at most 20 completion
\* checks are made for one machine, whatever the external tool answers.
\* ------------------------------------------------------------------------
C2_Budgets == Dispatches <= 5 /\ checks <= 20

\* Four rejected attempts, a fifth accepted without the flag, and a
\* completion poll that ran out after 20 checks.
C2_Witness ==
    /\ Dispatches = 5
    /\ checks = 20
    /\ error_detected
    /\ pc = "shutdown"

\* ------------------------------------------------------------------------
\* C3: update() returns success only if the flag was seen in an accepted
\* dispatch response and the machine was then seen powered off; a machine
\* whose dispatch or completion stage ran out of attempts is reported failed.
\* ------------------------------------------------------------------------
C3_UpdatedOnlyAfterSentinel ==
    (Returned /\ Outcome)
        => /\ ~error_detected
           /\ SentinelSeen(response)
           /\ ~DispatchRejected(response)
           /\ ReportsPoweredOff(vm_info)

\* ------------------------------------------------------------------------
\* C4: once the start was acknowledged, update() returns only after the
\* power-button signal was sent and the machine was seen powered off, the
\* signal is eventually sent whatever the dispatch and completion stages
\* meet, and a dispatch stage that ran out of attempts skips the completion
\* poll.
\* ------------------------------------------------------------------------
PowerButtonPosition == Index(log, "acpipowerbutton")

DispatchRanOut == Dispatches = 5 /\ DispatchRejected(response)

C4_ShutdownBeforeReturn ==
    /\ (Returned /\ StartAcked)
          => /\ Occurrences("acpipowerbutton") = 1
             /\ log[Len(log)] = "showvminfo"
             /\ PowerButtonPosition < Len(log)
             /\ ReportsPoweredOff(vm_info)
    /\ (StartAcked /\ DispatchRanOut) => checks = 0

C4_AlwaysShutDown ==
    /\ []C4_ShutdownBeforeReturn
    /\ (pc = "dispatch") ~> (pc = "poll" /\ Occurrences("acpipowerbutton") = 1)

\* update() returned after a dispatch stage that ran out of attempts.
C4_Witness ==
    /\ pc = "return"
    /\ StartAcked
    /\ DispatchRanOut
    /\ error_detected
    /\ Occurrences("acpipowerbutton") = 1

\* ------------------------------------------------------------------------
\* C5: a start answer without the success phrase fails the machine at once:
\* one start command, no probe, no update command.
\* ------------------------------------------------------------------------
C5_FailedStartIsFinal ==
    StartRefused
        => /\ log = StartedLog
           /\ Len(starts) = 1
           /\ Returned
           /\ ~Outcome

C5_Witness ==
    /\ StartRefused
    /\ Contains(starts[1], <<"successfully">>)
    /\ pc = "return"

\* ------------------------------------------------------------------------
\* C6 as stated: no machine a start command was issued for is left without
\* a power-button signal when main goes on.
\* ------------------------------------------------------------------------
C6_ShutdownAfterAnyStart ==
    (Returned /\ Occurrences("startvm") > 0) => Occurrences("acpipowerbutton") > 0

\* C6 as amended: a machine whose start was acknowledged and whose dispatch
\* or completion stage ran out gets the power-button signal before main
\* goes on; a machine whose start answer lacks the success phrase gets none.
C6_ShutdownAfterAckedStart ==
    /\ (Returned /\ StartAcked /\ error_detected) => Occurrences("acpipowerbutton") > 0
    /\ StartRefused => Occurrences("acpipowerbutton") = 0

\* main is about to go on after a machine whose completion poll timed out.
C6_Witness ==
    /\ pc = "loop"
    /\ i < Len(machines)
    /\ StartAcked
    /\ error_detected
    /\ checks = 20

\* ------------------------------------------------------------------------
\* C7: when the first dispatch response is accepted and holds the flag, no
\* further attempt is made, the first completion check succeeds without a
\* wait, and the next external command is the power-button signal.
\* ------------------------------------------------------------------------
FirstDispatchLog == StartedLog \o <<"which apt", "which snap", "update">>

FirstResponseComplete ==
    /\ log = FirstDispatchLog
    /\ SentinelSeen(response)
    /\ ~DispatchRejected(response)

C7_DirectShutdown ==
    [][FirstResponseComplete =>
         /\ pc = "dispatched" => (pc' = "completion" /\ log' = log /\ checks' = 0)
         /\ pc = "completion" => (pc' = "shutdown" /\ log' = log /\ checks' = 1)
         /\ pc = "shutdown" => (pc' = "poll" /\ checks' = 1
                                /\ log' = log \o <<"acpipowerbutton", "sleep 30">>)]_vars

C7_Witness ==
    /\ pc = "poll"
    /\ log = FirstDispatchLog \o <<"acpipowerbutton", "sleep 30">>
    /\ SentinelSeen(response)
    /\ checks = 1

\* ------------------------------------------------------------------------
\* C8: machines are processed in listing order, one at a time: every
\* external command of update() names the machine at the current index, the
\* index only moves to the next machine, and update() is called once per
\* index (as many calls have returned as the index tells).
\* ------------------------------------------------------------------------
InUpdate ==
    pc \in {"eligibility", "start", "dispatch", "dispatched", "completion",
            "shutdown", "poll", "return"}

\* The command line names the uuid of the k-th listed machine.
IssuedFor(line, k) ==
    /\ k \in 1..Len(machines)
    /\ SubSeq(line, 2, 1 + Len(machines[k].uuid)) = machines[k].uuid

C8_OneCallPerIndex ==
    /\ pc \in {"loop", "done"} => Len(outcomes) = i
    /\ InUpdate => (Len(outcomes) = i /\ i < Len(machines))

C8_ListingOrder ==
    /\ []C8_OneCallPerIndex
    /\ [][/\ i' \in {i, i + 1}
          /\ (InUpdate /\ log' # log) => IssuedFor(issued', i + 1)
          /\ (pc = "return" /\ pc' # "return") => i' = i + 1]_vars

\* The second machine is being shut down after the first reached its outcome.
C8_Witness ==
    /\ pc = "poll"
    /\ i = 1
    /\ Len(outcomes) = 1
    /\ IssuedFor(issued, 2)
    /\ machines[1].uuid # machines[2].uuid

\* ------------------------------------------------------------------------
\* C9 as stated: no failure met while a machine is processed aborts the
\* batch; the run ends only after every listed machine was attempted.
\* ------------------------------------------------------------------------
CrashedInUpdate == pc = "crashed" /\ log # <<>> /\ log[1] = "showvminfo"

\* Machines update() was called for.
Attempted == Len(outcomes) + (IF CrashedInUpdate \/ InUpdate THEN 1 ELSE 0)

C9_BatchNeverAborted ==
    (pc \in {"done", "crashed"} /\ args.ok) => Attempted = Len(machines)

\* C9 as amended: whatever update() returns, main goes on to the next
\* listed machine, and a run that ends normally has called update() for
\* every listed machine; the batch is aborted only when find_property_value
\* raises on a machine-info dump (no line starts with the queried property,
\* or that line holds no quote).
C9_AbortOnlyOnMissingProperty ==
    /\ pc = "done" => Len(outcomes) = Len(machines)
    /\ CrashedInUpdate
          => /\ exception \in {"Exception", "ValueError"}
             /\ \/ find_property_value(vm_info, <<"VMState">>).raised = exception
                \/ find_property_value(vm_info, <<"ostype">>).raised = exception

C9_BatchGoesOn ==
    /\ []C9_AbortOnlyOnMissingProperty
    /\ [][/\ pc = "return" => (pc' = "loop" /\ i' = i + 1)
          /\ (pc = "loop" /\ i < Len(machines)) => pc' = "eligibility"]_vars

\* The run ended after a failed first machine and an updated second one.
C9_Witness ==
    /\ pc = "done"
    /\ Len(outcomes) = 2
    /\ ~outcomes[1]
    /\ outcomes[2]

\* ------------------------------------------------------------------------
\* C10: the update command holds the apt update and upgrade steps iff apt
\* was found, the autoremove step iff apt was found and remove is set, the
\* snap refresh iff snap was found, each step behind the password-piping
\* sudo wrapper and followed by "&&", and ends with the echo of the flag;
\* without any manager it is the echo alone, and it is dispatched as built.
\* ------------------------------------------------------------------------
Wrapper == <<"echo", args.password, "|", "sudo", "-S">>

EchoFlag == <<"echo">> \o flag

\* Every apt or snap word of the command directly follows the wrapper.
EveryStepWrapped(text) ==
    \A k \in 1..Len(text) :
        text[k] \in {"apt", "snap"}
            => (k > Len(Wrapper) /\ SubSeq(text, k - Len(Wrapper), k - 1) = Wrapper)

C10_UpdateCommand ==
    (InUpdate /\ Dispatches > 0 /\ Occurrences("acpipowerbutton") = 0)
        => /\ Contains(command, Wrapper \o <<"apt", "update", "&&">>) <=> managers.apt
           /\ Contains(command, Wrapper \o <<"apt", "upgrade", "-y", "&&">>) <=> managers.apt
           /\ Contains(command, Wrapper \o <<"apt", "autoremove", "-y", "&&">>)
                 <=> (managers.apt /\ args.remove)
           /\ Contains(command, <<"autoremove">>) <=> (managers.apt /\ args.remove)
           /\ Contains(command, Wrapper \o <<"snap", "refresh", "&&">>) <=> managers.snap
           /\ EveryStepWrapped(command)
           /\ SubSeq(command, Len(command) - 1, Len(command)) = EchoFlag
           /\ (~managers.apt /\ ~managers.snap) => command = EchoFlag
           /\ SubSeq(issued, Len(issued) - Len(command) + 1, Len(issued)) = command
           /\ issued[1] = "guestcontrol"

\* apt alone was found, remove is not set, and the command was dispatched.
C10_Witness ==
    /\ pc = "dispatched"
    /\ managers = [apt |-> TRUE, snap |-> FALSE]
    /\ ~args.remove
    /\ log[Len(log)] = "update"
    /\ Contains(command, <<"apt", "upgrade">>)

\* ------------------------------------------------------------------------
\* parse_machines run on every listing of up to MaxLines lines
\* ------------------------------------------------------------------------
\* Lines of the longest listing.
MaxLines == 3

\* The machines the listings are made of; one name holds a dash.
Entries ==
    { [name |-> <<"vm">>, uuid |-> <<"1", "-", "-", "-", "-">>],
      [name |-> <<"my", "-", "vm">>, uuid |-> <<"2", "-", "-", "-", "-">>],
      [name |-> <<"db", " ", "server">>, uuid |-> <<"3", "-", "-", "-", "-">>] }

\* The line of "list vms" for a machine: "name" {uuid}
EntryLine(entry) == <<quote>> \o entry.name \o <<quote, " ", "{">> \o entry.uuid \o <<"}">>

\* A line with a third quote, and a line without braces.
ExtraQuoteLine == <<quote, "vm", quote, quote, " ", "{", "4", "-", "-", "-", "-", "}">>

NoBraceLine == <<quote, "vm", quote, " ", "5", "-", "-", "-", "-">>

LineKinds == { EntryLine(entry) : entry \in Entries } \cup { <<>>, ExtraQuoteLine, NoBraceLine }

\* The lines joined by the line separator, with or without one at the end.
RECURSIVE JoinLines(_, _)
JoinLines(lines, last) ==
    IF lines = <<>> THEN <<>>
    ELSE Head(lines)
         \o (IF Len(lines) > 1 \/ last THEN <<newline>> ELSE <<>>)
         \o JoinLines(Tail(lines), last)

ParseListings ==
    { JoinLines(lines, last) :
        lines \in UNION { [1..n -> LineKinds] : n \in 0..MaxLines }, last \in BOOLEAN }

ParseInit ==
    /\ argv = <<"update.py", "user", "pw">>
    /\ listing \in ParseListings
    /\ pc = "main"
    /\ property = <<>>
    /\ vm_info = <<>>
    /\ Unset

ParseSpec == ParseInit /\ [][MainStart]_vars

\* The lines of the listing; the empty piece after a final line separator
\* is not a line.
ListingLines ==
    LET pieces == Split(listing, newline)
    IN IF pieces[Len(pieces)] = <<>> THEN SubSeq(pieces, 1, Len(pieces) - 1) ELSE pieces

IsEntryLine(line) == \E entry \in Entries : line = EntryLine(entry)

EntryOf(line) == CHOOSE entry \in Entries : line = EntryLine(entry)

\* A line that is not blank and has a wrong count of quotes or of braces.
Malformed(line) ==
    /\ line # <<>>
    /\ \/ Count(line, quote) # 2
       \/ Count(line, "{") # 1
       \/ Count(line, "}") # 1

\* The parse failed and the run ended with the listing as its only command.
ParseFailed ==
    /\ pc = "crashed"
    /\ exception = "Exception"
    /\ machines = <<>>
    /\ log = <<"list vms">>
    /\ issued = <<"list", "vms">>

\* ------------------------------------------------------------------------
\* C11 as stated: a listing with a malformed line at any position makes
\* parse_machines raise; no list is returned and no machine is contacted.
\* ------------------------------------------------------------------------
C11_MalformedAnywhereRaises ==
    (pc # "main" /\ \E k \in 1..Len(ListingLines) : Malformed(ListingLines[k]))
        => ParseFailed

\* C11 as amended: a malformed line that no blank line precedes makes
\* parse_machines raise; no list is returned and no machine is contacted.
C11_MalformedBeforeBlankRaises ==
    (pc # "main"
     /\ \E k \in 1..Len(ListingLines) :
           /\ Malformed(ListingLines[k])
           /\ \A j \in 1..(k - 1) : ListingLines[j] # <<>>)
        => ParseFailed

\* Two entries were read before the line without braces was met.
C11_Witness ==
    /\ ParseFailed
    /\ Len(ListingLines) = 3
    /\ IsEntryLine(ListingLines[1])
    /\ IsEntryLine(ListingLines[2])
    /\ ListingLines[3] = NoBraceLine

\* ------------------------------------------------------------------------
\* C20: a listing of k entry lines, with any name and with or without a
\* line separator after the last entry, gives the k records in listing
\* order; every input gives a list or a parse error.
\* ------------------------------------------------------------------------
C20_EntriesParsed ==
    pc # "main"
        => /\ (\A k \in 1..Len(ListingLines) : IsEntryLine(ListingLines[k]))
                 => /\ pc = "loop"
                    /\ machines = [k \in 1..Len(ListingLines) |->
                                     [name |-> EntryOf(ListingLines[k]).name,
                                      uuid |-> EntryOf(ListingLines[k]).uuid]]
           /\ pc = "loop" \/ (pc = "crashed" /\ exception = "Exception")

\* ------------------------------------------------------------------------
\* find_property_value run on every dump of up to MaxInfoLines lines
\* ------------------------------------------------------------------------
\* Lines of the longest machine-info dump.
MaxInfoLines == 3

\* Keys and values of the lines; one key has another key as its prefix.
InfoKeys == { <<"VMState">>, <<"VMState", "ChangeTime">>, <<"ostype">> }

InfoValues == { <<"poweroff">>, <<"2020">> }

InfoPairs == { [key |-> key, value |-> value] : key \in InfoKeys, value \in InfoValues }

RECURSIVE DumpOf(_)
DumpOf(pairs) ==
    IF pairs = <<>> THEN <<>>
    ELSE InfoLine(Head(pairs).key, Head(pairs).value) \o DumpOf(Tail(pairs))

FindDumps ==
    { DumpOf(pairs) : pairs \in UNION { [1..n -> InfoPairs] : n \in 0..MaxInfoLines } }

FindInit ==
    /\ argv = <<"update.py", "user", "pw">>
    /\ listing = <<>>
    /\ pc = "find"
    /\ property \in InfoKeys \cup { <<"name">> }
    /\ vm_info \in FindDumps
    /\ Unset

\* One call of find_property_value(vm_info, property).
FindProperty ==
    /\ pc = "find"
    /\ found' = find_property_value(vm_info, property)
    /\ pc' = "found"
    /\ UNCHANGED <<property, probes, listing, argv, args, machines, i, success, vm_info,
                   response, attempt_count, error_detected, managers, command, issued,
                   log, checks, polls, reported, starts, stdout, outcomes,
                   host_shutdown, exception>>

FindSpec == FindInit /\ [][FindProperty]_vars

\* The values of the lines of the dump whose key is exactly the property.
ValuesOf(dump, key) ==
    { value \in InfoValues :
        \E k \in 1..Len(InfoLines(dump)) :
            InfoLines(dump)[k] = key \o <<"=", quote>> \o value \o <<quote>> }

KeyPresent(dump, key) ==
    \E k \in 1..Len(InfoLines(dump)) : StartsWith(InfoLines(dump)[k], key \o <<"=">>)

\* ------------------------------------------------------------------------
\* C12: find_property_value returns the value of the line whose key is the
\* requested key, whatever other keys the dump holds and in whatever order,
\* and raises the not-found failure when no line has that key.
\* ------------------------------------------------------------------------
C12_ExactKey ==
    pc = "found"
        => /\ KeyPresent(vm_info, property)
                 => (found.raised = "" /\ found.value \in ValuesOf(vm_info, property))
           /\ ~KeyPresent(vm_info, property) => found.raised = "Exception"

\* ------------------------------------------------------------------------
\* C13 (verbosity does not change the commands, waits and outcomes of a
\* run) compares two runs that differ in the verbose option; it is not a
\* property of the single behaviours this module describes.
\* ------------------------------------------------------------------------

\* ------------------------------------------------------------------------
\* main() started on every command line of up to MaxFlags flags
\* ------------------------------------------------------------------------
\* Flags after the two positional arguments.
MaxFlags == 2

FlagWords == { "-r", "-s", "-v", "-h", "-x" }

\* What the command line starts with: nothing, a user name, a user name and
\* a password, or a flag word where one of the two is expected.
Positionals ==
    { <<>>, <<"user">>, <<"user", "pw">>, <<"-h", "pw">>, <<"user", "-h">> }

AllArgvs ==
    { <<"update.py">> \o positional \o flags :
        positional \in Positionals,
        flags \in UNION { [1..n -> FlagWords] : n \in 0..MaxFlags } }

\* The external tool lists no machine.
ArgsInit ==
    /\ argv \in AllArgvs
    /\ listing = <<>>
    /\ pc = "main"
    /\ property = <<>>
    /\ vm_info = <<>>
    /\ Unset

ArgsNext ==
    \/ MainStart
    \/ MainLoop

ArgsSpec == ArgsInit /\ [][ArgsNext]_vars

\* Fewer than two arguments after the script name, or a word after the
\* second one that is -h or not a known flag.
BadArgv ==
    \/ Len(argv) < 3
    \/ \E k \in 4..Len(argv) : argv[k] \notin {"-r", "-s", "-v"}

\* ------------------------------------------------------------------------
\* C14: with fewer than two positional arguments, an unknown flag or -h
\* among the flags, the program prints the usage and exits; it lists no
\* machines, contacts none and does not shut the host down.
\* ------------------------------------------------------------------------
C14_UsageAndExit ==
    (pc # "main" /\ BadArgv)
        => /\ pc = "crashed"
           /\ exception = "SystemExit"
           /\ stdout # <<>>
           /\ stdout[Len(stdout)] = <<"Usage:">>
           /\ log = <<>>
           /\ issued = <<>>
           /\ machines = <<>>
           /\ ~host_shutdown

\* The host shutdown was asked for before the unknown flag.
C14_Witness ==
    /\ argv = <<"update.py", "user", "pw", "-s", "-x">>
    /\ pc = "crashed"
    /\ exception = "SystemExit"
    /\ stdout = << <<"Unknown argument:", "-x">>, <<"Usage:">> >>

\* ------------------------------------------------------------------------
\* C15 as stated: the settle wait is taken only after an acknowledged
\* start; a refused start fails the machine without a settle wait, an
\* acknowledged one has exactly one settle wait before the first guest
\* command.
\* ------------------------------------------------------------------------
C15_SettleOnlyAfterAck ==
    /\ StartRefused => Occurrences("sleep 60") = 0
    /\ StartAcked => (Occurrences("sleep 60") = 1 /\ SubSeq(log, 1, 3) = StartedLog)

\* C15 as amended: the settle wait is taken right after the start command,
\* before its answer is looked at: a refused start fails the machine after
\* exactly one settle wait and without a guest command, an acknowledged one
\* has exactly one settle wait before the first guest command.
C15_SettleAfterEveryStart ==
    /\ StartRefused => (log = StartedLog /\ Returned /\ ~Outcome)
    /\ StartAcked => (Occurrences("sleep 60") = 1 /\ SubSeq(log, 1, 3) = StartedLog)
    /\ Occurrences("startvm") = Occurrences("sleep 60")

\* update() returned after a refused start and its one settle wait.
C15_Witness ==
    /\ StartRefused
    /\ pc = "return"
    /\ Occurrences("sleep 60") = 1
    /\ log[Len(log)] = "sleep 60"

\* ------------------------------------------------------------------------
\* C16: a dispatch attempt is accepted iff its answer lacks "error:"; the
\* first accepted attempt ends the stage and no further update command is
\* dispatched; an answer that holds the marker, with or without the flag,
\* is followed by the wait and, after fewer than 5 attempts, by another
\* attempt.
\* ------------------------------------------------------------------------
HasErrorMarker(text) == Contains(text, <<"error:">>)

AttemptLog == <<"which apt", "which snap", "update">>

C16_DispatchAcceptance ==
    [][/\ (pc = "dispatch" /\ Dispatches < 5)
             => IF HasErrorMarker(response')
                THEN pc' = "dispatch" /\ log' = log \o AttemptLog \o <<"sleep 30">>
                ELSE pc' = "dispatched" /\ log' = log \o AttemptLog
       /\ (pc = "dispatch" /\ Dispatches >= 5)
             => (pc' = "dispatched" /\ log' = log /\ error_detected')
       /\ pc \in {"dispatched", "completion", "shutdown", "poll"}
             => Cardinality({k \in 1..Len(log') : log'[k] = "update"}) = Dispatches]_vars

\* An answer with the marker and the flag was followed by the wait, and the
\* stage goes on.
C16_Witness ==
    /\ pc = "dispatch"
    /\ HasErrorMarker(response)
    /\ SentinelSeen(response)
    /\ Dispatches = 1
    /\ log[Len(log)] = "sleep 30"

\* ------------------------------------------------------------------------
\* C17: the completion poll issues no external command and leaves the
\* stored response as it is; after an accepted dispatch the stage ends with
\* one successful check if the response holds the flag and with 20 failed
\* checks and a timeout if it does not.
\* ------------------------------------------------------------------------
C17_PollOutcome ==
    (StartAcked /\ pc \in {"shutdown", "poll", "return"} /\ ~HasErrorMarker(response))
        => IF Contains(response, flag)
           THEN checks = 1 /\ ~error_detected
           ELSE checks = 20 /\ error_detected

C17_PollReadsStoredResponse ==
    /\ []C17_PollOutcome
    /\ [][pc = "completion"
            => /\ response' = response
               /\ issued' = issued
               /\ log' = log \/ log' = Append(log, "sleep 30")]_vars

\* The first answer was accepted without the flag and the poll timed out.
C17_Witness ==
    /\ pc = "shutdown"
    /\ Dispatches = 1
    /\ ~HasErrorMarker(response)
    /\ ~Contains(response, flag)
    /\ checks = 20
    /\ Occurrences("sleep 30") = 20
    /\ error_detected

\* ------------------------------------------------------------------------
\* C18: the shutdown stage sends one power-button signal and then queries
\* the power state without a budget: it returns exactly when an answer
\* reports poweroff, any other reported state leads to another query of the
\* same machine; the stages before it issue a bounded number of commands.
\* ------------------------------------------------------------------------
\* External commands in the log of the current update().
Commands == Len(log) - Occurrences("sleep 60") - Occurrences("sleep 30")
                     - Occurrences("sleep 15")

C18_OneSignalBoundedStages ==
    /\ Occurrences("acpipowerbutton") <= 1
    /\ pc = "poll" => Occurrences("acpipowerbutton") = 1
    /\ pc \in {"eligibility", "start", "dispatch", "dispatched", "completion", "shutdown"}
          => (Commands <= 17 /\ Len(log) <= 43 /\ Occurrences("acpipowerbutton") = 0)

C18_UnboundedShutdownPoll ==
    /\ []C18_OneSignalBoundedStages
    /\ [][pc = "poll"
            => IF ReportsPoweredOff(vm_info')
               THEN pc' = "return" /\ success'
               ELSE IF ReportsNotPoweredOff(vm_info')
               THEN /\ pc' = "poll"
                    /\ log' = log \o <<"showvminfo", "sleep 15">>
                    /\ UNCHANGED <<i, outcomes, attempt_count, error_detected>>
               ELSE pc' = "crashed"]_vars

\* The machine is still polled after MaxPolls answers that report another
\* state.
C18_Witness ==
    /\ pc = "poll"
    /\ polls = MaxPolls
    /\ ReportsNotPoweredOff(vm_info)
    /\ Occurrences("showvminfo") = MaxPolls + 1
    /\ Occurrences("acpipowerbutton") = 1

\* ------------------------------------------------------------------------
\* C19: every dispatch attempt probes apt and snap once each and then
\* issues one update command; a manager is marked iff the answer to its
\* probe of that attempt is not empty, and the command holds the steps of
\* the managers marked in that attempt; at most 15 guest commands are
\* issued for a machine.
\* ------------------------------------------------------------------------
GuestCommands == Occurrences("which apt") + Occurrences("which snap") + Occurrences("update")

C19_ProbesPerAttempt ==
    /\ [](GuestCommands <= 15 /\ GuestCommands = 3 * Dispatches)
    /\ [][(pc = "dispatch" /\ log' # log)
            => /\ SubSeq(log', 1, Len(log) + 3) = log \o AttemptLog
               /\ managers'.apt <=> probes'.apt # <<>>
               /\ managers'.snap <=> probes'.snap # <<>>
               /\ Contains(command', <<"apt", "update">>) <=> probes'.apt # <<>>
               /\ Contains(command', <<"snap", "refresh">>) <=> probes'.snap # <<>>
               /\ issued'[1] = "guestcontrol"
               /\ SubSeq(issued', Len(issued') - Len(command') + 1, Len(issued'))
                     = command']_vars

\* The fifth attempt found snap alone.
C19_Witness ==
    /\ GuestCommands = 15
    /\ probes.apt = <<>>
    /\ probes.snap # <<>>
    /\ managers = [apt |-> FALSE, snap |-> TRUE]
    /\ ~Contains(command, <<"apt">>)

====
